---- MODULE Spec2Model ----
(***************************************************************************)
(* Quake Sentinel (src/q_sen.py): a sequential poll-filter-notify loop     *)
(* with an on-disk set of seen event ids, a once-daily report and the      *)
(* impact estimation used by both messages.                                *)
(*                                                                         *)
(* Units.  Magnitudes are integers in tenths (6.0 -> 60), distances are    *)
(* integers in metres (30 km -> 30000), latitudes and longitudes are       *)
(* integers in tenths of a degree, times are integers in seconds.  Every   *)
(* magnitude offset and threshold of the code is a multiple of 0.5, which  *)
(* binary floating point represents exactly, so the comparisons on tenths  *)
(* agree with the comparisons on the floats.                               *)
(***************************************************************************)
EXTENDS Integers, Sequences, FiniteSets, TLC

VARIABLES
    clock,            \* datetime.now(timezone.utc), in seconds
    running,          \* monitor_loop has not been left by an exception
    seen,             \* monitor_loop's local set `seen`
    seenFile,         \* SEEN_FILE: [readable, ids]
    last_daily_date,  \* <<>> for None, <<d>> for the date d
    alertCalls,       \* id -> calls of send_to_recipients for it in this run
    dailyCalls,       \* calls of send_daily_report in this run
    restarts,         \* how often the process has been started again
    impact,           \* result of the last build_alert_message
    report,           \* result of the last send_daily_report or send_test_alert
    delivery,         \* result of the last send_to_recipients
    est               \* results of the last estimate_intensity calls

vars == <<clock, running, seen, seenFile, last_daily_date, alertCalls,
          dailyCalls, restarts, impact, report, delivery, est>>

(***************************************************************************)
(* Bounds of the model                                                     *)
(***************************************************************************)
MaxFeatures == 2      \* longest feed a poll receives
MaxPolls == 16        \* iterations of the loop after StartClock
MaxRestarts == 1      \* process restarts

(***************************************************************************)
(* Configuration                                                           *)
(***************************************************************************)
MIN_MAGNITUDE == 10           \* 1.0
CHECK_INTERVAL == 300         \* seconds
PRIORITY_CITY == "Tacloban"
RECIPIENTS == <<"5747516199", "123456789">>
InclusionRadius == 400000     \* 400 km

\* CITIES in the dict's insertion order, in tenths of a degree: <<lat, lon>>
CityNames == <<"Manila", "Baguio", "Cebu", "Davao", "Iloilo", "Legazpi",
               "Tacloban", "Samar">>

CITIES == [Manila   |-> <<146, 1210>>, Baguio   |-> <<164, 1206>>,
           Cebu     |-> <<103, 1239>>, Davao    |-> <<71, 1256>>,
           Iloilo   |-> <<107, 1226>>, Legazpi  |-> <<131, 1237>>,
           Tacloban |-> <<112, 1250>>, Samar    |-> <<120, 1250>>]

\* Python values that may be None
PyNone == [none |-> TRUE, v |-> 0]
PyNum(x) == [none |-> FALSE, v |-> x]

(***************************************************************************)
(* is_in_sea_region                                                        *)
(***************************************************************************)
is_in_sea_region(lat, lon) ==
    (45 <= lat /\ lat <= 215) /\ (1160 <= lon /\ lon <= 1275)

(***************************************************************************)
(* distance_km: the haversine distance.  TLC has no floating point, so the *)
(* function is tabulated: row i holds, for the epicenter Epicenters[i],    *)
(* the value the source's formula returns for each city of CityNames, in   *)
(* metres rounded down.  For every entry the comparisons with 30, 100, 300 *)
(* and 400 km and the order of any two entries of a row are the same on    *)
(* the rounded values as on the floats; the two equal entries of row 2     *)
(* are equal as floats (44.47797065782353).                                *)
(***************************************************************************)
Epicenters ==
    << <<112, 1250>>, <<116, 1250>>, <<0, 0>>,      <<146, 1210>>,
       <<200, 1270>>, <<90, 1240>>,  <<50, 1200>>,  <<250, 1220>>,
       <<130, 1230>>, <<70, 1260>>,  <<160, 1205>>, <<105, 1230>> >>

DistTable ==
    << <<575180, 748261, 156381, 460630, 267841, 254171, 0, 88955>>,
       <<546709, 714194, 187925, 504686, 280300, 218536, 44477, 44477>>,
       <<13331678, 13257872, 13708308, 13931175, 13561903, 13644865, 13814796, 13802394>>,
       <<0, 204688, 572461, 973368, 467099, 335833, 575180, 520481>>,
       <<875143, 785514, 1128600, 1442336, 1136389, 843916, 1001629, 914834>>,
       <<703045, 901594, 144968, 275070, 243425, 457072, 268003, 351040>>,
       <<1073065, 1269310, 729316, 661752, 695462, 987929, 882007, 952785>>,
       <<1161132, 967271, 1646828, 2026852, 1591346, 1335170, 1566701, 1479549>>,
       <<279807, 457755, 315817, 715094, 259425, 76637, 295533, 243932>>,
       <<1005944, 1198891, 433502, 45520, 555664, 723481, 479745, 566680>>,
       <<164650, 45741, 732883, 1134624, 631577, 471774, 721968, 658355>>,
       <<504918, 705476, 100912, 473848, 49050, 298976, 231867, 274574>> >>

distance_km(lat1, lon1, lat2, lon2) ==
    LET e == CHOOSE i \in DOMAIN Epicenters : Epicenters[i] = <<lat1, lon1>>
        c == CHOOSE j \in DOMAIN CityNames : CITIES[CityNames[j]] = <<lat2, lon2>>
    IN  DistTable[e][c]

(***************************************************************************)
(* estimate_intensity.  `mag` is a Python value; None + 1.5 raises         *)
(* TypeError.                                                              *)
(***************************************************************************)
Labels == <<"I (Barely Felt)", "II (Slight)", "III (Weak)", "IV (Moderate)",
            "V (Strong)", "VI (Very Strong)", "VII (Severe)">>

level_MutExclusiveBand(mag, dist_km) ==
    IF dist_km <= 30000 THEN mag + 15
    ELSE IF dist_km < 100000 THEN mag
    ELSE IF dist_km < 300000 THEN mag - 15
    ELSE mag - 25

level_MutFarBandSign(mag, dist_km) ==
    IF dist_km < 30000 THEN mag + 15
    ELSE IF dist_km < 100000 THEN mag
    ELSE IF dist_km < 300000 THEN mag - 15
    ELSE mag + 25

level(mag, dist_km) ==
    IF dist_km < 30000 THEN mag + 15
    ELSE IF dist_km < 100000 THEN mag
    ELSE IF dist_km < 300000 THEN mag - 15
    ELSE mag - 25

label_of(lv) ==
    IF lv >= 70 THEN "VII (Severe)"
    ELSE IF lv >= 60 THEN "VI (Very Strong)"
    ELSE IF lv >= 50 THEN "V (Strong)"
    ELSE IF lv >= 40 THEN "IV (Moderate)"
    ELSE IF lv >= 30 THEN "III (Weak)"
    ELSE IF lv >= 20 THEN "II (Slight)"
    ELSE "I (Barely Felt)"

estimate_intensity(mag, dist_km) ==
    IF mag.none THEN "TypeError" ELSE label_of(level(mag.v, dist_km))

(***************************************************************************)
(* Event records of the feed.  Only the fields the loop and the impact     *)
(* analysis read are kept: "id", properties.mag, geometry.coordinates.     *)
(* id = "" stands for a missing, null or empty id (all falsy); mag.kind    *)
(* is "missing" (no such key), "null" or "num"; geometry is "ok",          *)
(* "missing" (no such key) or "null".  place and time only reach the       *)
(* message text, which is not modelled.                                    *)
(***************************************************************************)
Quake(id, magKind, magV, geometry, lat, lon) ==
    [id |-> id, mag |-> [kind |-> magKind, v |-> magV],
     geometry |-> geometry, lat |-> lat, lon |-> lon]

\* props.get("mag", 0): the default applies only when the key is missing
props_get_mag(quake) ==
    IF quake.mag.kind = "missing" THEN PyNum(0)
    ELSE IF quake.mag.kind = "null" THEN PyNone
    ELSE PyNum(quake.mag.v)

\* geom.get("coordinates", [0, 0]) as <<lat, lon>>; geom = {} when missing
get_coords(quake) ==
    IF quake.geometry = "missing" THEN <<0, 0>> ELSE <<quake.lat, quake.lon>>

(***************************************************************************)
(* Persistence of the seen ids.  SEEN_FILE is [readable, ids]: readable is *)
(* FALSE when the file is absent or does not hold JSON.                    *)
(***************************************************************************)
NoFile == [readable |-> FALSE, ids |-> {}]

load_seen(file, readFails) ==
    IF readFails \/ ~file.readable THEN {} ELSE file.ids

\* outcome: "ok"; "open_fail" (open raises, the file is untouched);
\* "dump_fail" (open(.., "w") has truncated the file and the write raises)
save_seen(seen_set, file, outcome) ==
    IF outcome = "ok" THEN [readable |-> TRUE, ids |-> seen_set]
    ELSE IF outcome = "open_fail" THEN file
    ELSE NoFile

SaveOutcomes == {"ok", "open_fail", "dump_fail"}

(***************************************************************************)
(* send_to_recipients.  fails[i] is what happens for RECIPIENTS[i]: "ok",  *)
(* "photo_fail" (the sendPhoto request raises) or "msg_fail" (the          *)
(* sendMessage request raises).  The photo is requested only when          *)
(* coordinates are given.  The result lists the recipients for which a     *)
(* request was made, those whose message request returned, and whether an  *)
(* exception left the function.                                            *)
(***************************************************************************)
SendOutcomes == {"ok", "photo_fail", "msg_fail"}
DeliveryPatterns == [DOMAIN RECIPIENTS -> SendOutcomes]

RECURSIVE SendLoop(_, _, _, _, _)
SendLoop(i, acc, withCoords, fails, catch) ==
    IF i > Len(RECIPIENTS) THEN acc
    ELSE LET raises == \/ (withCoords /\ fails[i] = "photo_fail")
                       \/ fails[i] = "msg_fail"
             next == [acc EXCEPT
                        !.attempted = Append(@, RECIPIENTS[i]),
                        !.delivered = IF raises THEN @ ELSE @ \cup {RECIPIENTS[i]}]
         IN  IF raises /\ ~catch
             THEN [next EXCEPT !.raised = TRUE]
             ELSE SendLoop(i + 1, next, withCoords, fails, catch)

NoDelivery == [called |-> FALSE, attempted |-> <<>>, delivered |-> {},
               raised |-> FALSE]

send_to_recipients_MutNoCatch(withCoords, fails) ==
    SendLoop(1, [NoDelivery EXCEPT !.called = TRUE], withCoords, fails, FALSE)

send_to_recipients(withCoords, fails) ==
    SendLoop(1, [NoDelivery EXCEPT !.called = TRUE], withCoords, fails, TRUE)

\* log_event raises when LOG_FILE cannot be opened or written
log_event_raises(logOk) == ~logOk

(***************************************************************************)
(* Impact analysis, the same code in build_alert_message and in            *)
(* send_daily_report.                                                      *)
(***************************************************************************)
include_city_MutRadiusOnly(city, dist) == dist <= InclusionRadius

include_city(city, dist) == city = PRIORITY_CITY \/ dist <= InclusionRadius

ImpactEntry(city, lat, lon, mag) ==
    LET dist == distance_km(lat, lon, CITIES[city][1], CITIES[city][2])
    IN  [city |-> city, dist |-> dist, intensity |-> estimate_intensity(mag, dist)]

\* list.sort(key=lambda x: x[1]): ascending and stable
RECURSIVE InsertByDist(_, _)
InsertByDist(e, s) ==
    IF s = <<>> THEN <<e>>
    ELSE IF e.dist < Head(s).dist THEN <<e>> \o s
    ELSE <<Head(s)>> \o InsertByDist(e, Tail(s))

RECURSIVE SortFrom(_, _, _)
SortFrom(s, i, acc) ==
    IF i > Len(s) THEN acc ELSE SortFrom(s, i + 1, InsertByDist(s[i], acc))

\* a sort that puts an entry before the entries of equal distance
sort_by_dist_MutUnstable(s) ==
    LET RECURSIVE Ins(_, _)
        Ins(e, t) == IF t = <<>> THEN <<e>>
                     ELSE IF e.dist <= Head(t).dist THEN <<e>> \o t
                     ELSE <<Head(t)>> \o Ins(e, Tail(t))
        RECURSIVE F(_, _)
        F(i, acc) == IF i > Len(s) THEN acc ELSE F(i + 1, Ins(s[i], acc))
    IN  F(1, <<>>)

sort_by_dist(s) == SortFrom(s, 1, <<>>)

\* The for loop, the fallback and the sort.  mag = None raises TypeError in
\* the first estimate_intensity call.
impact_data(lat, lon, mag) ==
    IF mag.none THEN [raised |-> TRUE, list |-> <<>>]
    ELSE LET all == [i \in DOMAIN CityNames |-> ImpactEntry(CityNames[i], lat, lon, mag)]
             Keep(e) == include_city(e.city, e.dist)
             kept == SelectSeq(all, Keep)
             filled == IF kept = <<>>
                       THEN <<ImpactEntry(PRIORITY_CITY, lat, lon, mag)>>
                       ELSE kept
         IN  [raised |-> FALSE, list |-> sort_by_dist(filled)]

NoImpact == [called |-> FALSE, raised |-> FALSE, lat |-> 0, lon |-> 0,
             mag |-> PyNum(0), list |-> <<>>]

\* build_alert_message: (msg, lat, lon) or an exception
build_alert_message(quake) ==
    IF quake.geometry = "null"
    THEN [NoImpact EXCEPT !.called = TRUE, !.raised = TRUE]
    ELSE LET c == get_coords(quake)
             mag == props_get_mag(quake)
             r == impact_data(c[1], c[2], mag)
         IN  [called |-> TRUE, raised |-> r.raised, lat |-> c[1], lon |-> c[2],
              mag |-> mag, list |-> r.list]

(***************************************************************************)
(* send_daily_report.  fetch is [ok, features]: ok is FALSE when the       *)
(* request or r.json() raises.  Every exception is caught inside.          *)
(***************************************************************************)
NoReport == [outcome |-> "none", lat |-> 0, lon |-> 0, mag |-> PyNum(0),
             list |-> <<>>, delivery |-> NoDelivery]

send_daily_report(fetch, fails, logOk) ==
    IF ~fetch.ok THEN [NoReport EXCEPT !.outcome = "fetch_error"]
    ELSE IF fetch.features = <<>>
    THEN [NoReport EXCEPT !.outcome = "empty",
                          !.delivery = send_to_recipients(FALSE, fails)]
    ELSE LET latest == fetch.features[1]
         IN  IF latest.geometry = "null"
             THEN [NoReport EXCEPT !.outcome = "build_error"]
             ELSE LET c == get_coords(latest)
                      mag == props_get_mag(latest)
                      r == impact_data(c[1], c[2], mag)
                  IN  IF r.raised
                      THEN [NoReport EXCEPT !.outcome = "build_error",
                                            !.lat = c[1], !.lon = c[2], !.mag = mag]
                      ELSE [outcome |-> IF log_event_raises(logOk)
                                        THEN "sent_log_error" ELSE "sent",
                            lat |-> c[1], lon |-> c[2], mag |-> mag,
                            list |-> r.list,
                            delivery |-> send_to_recipients(TRUE, fails)]

(***************************************************************************)
(* monitor_loop: one iteration of `while True`.                            *)
(***************************************************************************)
\* line 275: `quake_id and quake_id not in seen`
is_new_MutNoSeenCheck(quake_id, seen_set) == quake_id # ""

is_new(quake_id, seen_set) == quake_id # "" /\ quake_id \notin seen_set

\* line 279: seen.add(quake_id)
seen_add_MutReplace(seen_set, quake_id) == {quake_id}

seen_add(seen_set, quake_id) == seen_set \cup {quake_id}

\* fixed UTC+8 clock: now_ph = now_utc + timedelta(hours=8)
now_ph(now_utc) == now_utc + 8 * 3600
hour_of(t) == (t \div 3600) % 24
date_of(t) == t \div 86400

(***************************************************************************)
(* Events the feed delivers to the loop                                    *)
(***************************************************************************)
Ids == {"a", "b"}

MonitorQuakes ==
    { Quake("a", "num", 52, "ok", 112, 1250),      \* alerted
      Quake("b", "num", 65, "ok", 146, 1210),      \* alerted
      Quake("a", "null", 0, "ok", 112, 1250),      \* mag null: skipped
      Quake("b", "num", 50, "ok", 250, 1220),      \* outside the region
      Quake("b", "num", 50, "null", 0, 0) }        \* geometry null: raises

\* build_alert_message and send_to_recipients as the loop calls them,
\* tabulated over the loop's inputs so that TLC evaluates each call once
AlertMessages == [q \in MonitorQuakes |-> build_alert_message(q)]
Deliveries == [f \in DeliveryPatterns |-> send_to_recipients(TRUE, f)]

\* lines 276-283, the body of `if quake_id and quake_id not in seen`.
\* st is [seen, file, calls, raised]; raised means an exception is on its
\* way to the `except` of line 292.
alert_step(st, quake, fails, saveOutcome, logOk) ==
    LET b == AlertMessages[quake]
        d == Deliveries[fails]
        seen2 == seen_add(st.seen, quake.id)
    IN  IF b.raised THEN [st EXCEPT !.raised = TRUE]
        ELSE IF d.raised
        THEN [st EXCEPT !.calls[quake.id] = @ + 1, !.raised = TRUE]
        ELSE [seen |-> seen2,
              file |-> save_seen(seen2, st.file, saveOutcome),
              calls |-> [st.calls EXCEPT ![quake.id] = @ + 1],
              raised |-> log_event_raises(logOk)]

\* lines 261-283, the for loop from features[i] on
RECURSIVE process_features(_, _, _, _, _, _)
process_features(features, i, st, fails, saveOutcome, logOk) ==
    IF i > Len(features) \/ st.raised THEN st
    ELSE LET quake == features[i]
             c == get_coords(quake)
             mag == props_get_mag(quake)
         IN  IF quake.geometry = "null"
             THEN [st EXCEPT !.raised = TRUE]
             ELSE IF mag.none \/ mag.v < MIN_MAGNITUDE
                     \/ ~is_in_sea_region(c[1], c[2])
                     \/ ~is_new(quake.id, st.seen)
             THEN process_features(features, i + 1, st, fails, saveOutcome, logOk)
             ELSE process_features(features, i + 1,
                      alert_step(st, quake, fails, saveOutcome, logOk),
                      fails, saveOutcome, logOk)

\* lines 288: the gate of the daily report
daily_due(now_utc, last) ==
    hour_of(now_ph(now_utc)) = 8 /\ last # <<date_of(now_ph(now_utc))>>

(***************************************************************************)
(* Inputs                                                                  *)
(***************************************************************************)
FeedsOver(quakes) == UNION { [1..n -> quakes] : n \in 0..MaxFeatures }

FetchFailed == [ok |-> FALSE, features |-> <<>>]
FetchesOver(quakes) ==
    {FetchFailed} \cup { [ok |-> TRUE, features |-> f] : f \in FeedsOver(quakes) }

\* the process is started ten minutes before 08:00 UTC+8
MonitorFetches == FetchesOver(MonitorQuakes)

StartClock == 86400 - 2 * CHECK_INTERVAL
EndClock == StartClock + MaxPolls * CHECK_INTERVAL

(***************************************************************************)
(* Initial state: monitor_loop has run lines 250-252 with no SEEN_FILE.    *)
(***************************************************************************)
NoEst == [called |-> FALSE, mag |-> 0, d1 |-> 0, d2 |-> 0,
          l1 |-> "", l2 |-> ""]

Init ==
    /\ clock = StartClock
    /\ running = TRUE
    /\ seenFile = NoFile
    /\ seen = load_seen(NoFile, FALSE)
    /\ last_daily_date = <<>>
    /\ alertCalls = [i \in Ids |-> 0]
    /\ dailyCalls = 0
    /\ restarts = 0
    /\ impact = NoImpact
    /\ report = NoReport
    /\ delivery = NoDelivery
    /\ est = NoEst

(***************************************************************************)
(* One iteration of the loop, lines 255-296.  The inputs are what the     *)
(* feed returns, what each delivery does, what the write of SEEN_FILE does *)
(* and whether LOG_FILE can be written during the iteration.  An exception *)
(* in the try block skips the rest of it, the daily report included; the   *)
(* handler itself calls log_event, whose exception leaves monitor_loop.    *)
(* send_daily_report catches every exception and changes none of the       *)
(* loop's state.  The time the requests take is not counted.               *)
(***************************************************************************)
AllDelivered == [i \in DOMAIN RECIPIENTS |-> "ok"]

\* lines 256-283 of one iteration, from the loop's state st0
poll(fetch, st0, fails, saveOutcome, logOk) ==
    IF ~fetch.ok THEN [st0 EXCEPT !.raised = TRUE]
    ELSE process_features(fetch.features, 1, st0, fails, saveOutcome, logOk)

\* The deliveries and the write of SEEN_FILE are read only by an iteration
\* that reaches line 277, so they are drawn only for such an iteration.
MonitorIteration ==
    /\ running
    /\ clock < EndClock
    /\ \E fetch \in MonitorFetches, logOk \in BOOLEAN :
       \E st0 \in {[seen |-> seen, file |-> seenFile, calls |-> alertCalls,
                    raised |-> FALSE]} :
       \E alerting \in {poll(fetch, st0, AllDelivered, "ok", logOk).calls # alertCalls} :
       \E fails \in IF alerting THEN DeliveryPatterns ELSE {AllDelivered},
          saveOutcome \in IF alerting THEN SaveOutcomes ELSE {"ok"} :
       \E st1 \in {poll(fetch, st0, fails, saveOutcome, logOk)} :
         LET due == ~st1.raised /\ daily_due(clock, last_daily_date)
             escaped == st1.raised /\ log_event_raises(logOk)
         IN  /\ seen' = st1.seen
             /\ seenFile' = st1.file
             /\ alertCalls' = st1.calls
             /\ dailyCalls' = IF due THEN dailyCalls + 1 ELSE dailyCalls
             /\ last_daily_date' = IF due THEN <<date_of(now_ph(clock))>>
                                   ELSE last_daily_date
             /\ running' = ~escaped
             /\ clock' = IF escaped THEN clock ELSE clock + CHECK_INTERVAL
    /\ UNCHANGED <<restarts, impact, report, delivery, est>>

\* The process is started again: lines 250-251
Restart ==
    /\ restarts < MaxRestarts
    /\ \E readFails \in BOOLEAN :
         seen' = load_seen(seenFile, readFails)
    /\ last_daily_date' = <<>>
    /\ running' = TRUE
    /\ alertCalls' = [i \in Ids |-> 0]
    /\ dailyCalls' = 0
    /\ restarts' = restarts + 1
    /\ UNCHANGED <<clock, seenFile, impact, report, delivery, est>>

Next == MonitorIteration \/ Restart

Spec == Init /\ [][Next]_vars

(***************************************************************************)
(* The functions called on their own: build_alert_message,                 *)
(* send_daily_report ("can also be called manually") and send_test_alert.  *)
(* impact, report and delivery hold the result of the last call.           *)
(***************************************************************************)
CallMags == { <<"num", 52>>, <<"num", 70>>, <<"missing", 0>>, <<"null", 0>> }

CallQuakes ==
    { Quake("a", m[1], m[2], "ok", Epicenters[i][1], Epicenters[i][2]) :
          m \in CallMags, i \in DOMAIN Epicenters }
    \cup { Quake("a", "num", 52, "missing", 112, 1250),
           Quake("a", "num", 52, "null", 112, 1250) }

\* send_daily_report reads features[0] only
CallFetches ==
    {FetchFailed, [ok |-> TRUE, features |-> <<>>]}
    \cup { [ok |-> TRUE, features |-> <<q>>] : q \in CallQuakes }
    \cup { [ok |-> TRUE, features |-> <<q, Quake("b", "num", 65, "ok", 146, 1210)>>] :
             q \in {Quake("a", "null", 0, "ok", 112, 1250)} }

BuildAlertMessage ==
    /\ \E quake \in CallQuakes : impact' = build_alert_message(quake)
    /\ report' = NoReport
    /\ delivery' = NoDelivery
    /\ UNCHANGED <<clock, running, seen, seenFile, last_daily_date,
                   alertCalls, dailyCalls, restarts, est>>

SendDailyReport ==
    /\ \E fetch \in CallFetches, fails \in DeliveryPatterns, logOk \in BOOLEAN :
       \E r \in {send_daily_report(fetch, fails, logOk)} :
         /\ report' = r
         /\ delivery' = r.delivery
    /\ impact' = NoImpact
    /\ UNCHANGED <<clock, running, seen, seenFile, last_daily_date,
                   alertCalls, dailyCalls, restarts, est>>

\* send_test_alert, lines 300-304: log_event is not guarded here, so an
\* unwritable LOG_FILE raises after the sends
SendTestAlert ==
    /\ \E fails \in DeliveryPatterns, logOk \in BOOLEAN :
         /\ delivery' = send_to_recipients(TRUE, fails)
         /\ report' = [NoReport EXCEPT !.outcome =
                          IF log_event_raises(logOk) THEN "test_alert_raised"
                          ELSE "test_alert"]
    /\ impact' = NoImpact
    /\ UNCHANGED <<clock, running, seen, seenFile, last_daily_date,
                   alertCalls, dailyCalls, restarts, est>>

NextCalls == BuildAlertMessage \/ SendDailyReport \/ SendTestAlert

SpecCalls == Init /\ [][NextCalls]_vars

(***************************************************************************)
(* estimate_intensity called on its own, on a magnitude and two distances  *)
(* d1 <= d2.                                                               *)
(***************************************************************************)
Mags == { m \in -10..100 : m % 5 = 0 }
Dists == {0, 29999, 30000, 99999, 100000, 299999, 300000, 1000000}

EstimateIntensity ==
    /\ \E mag \in Mags, d1 \in Dists, d2 \in Dists :
         /\ d1 <= d2
         /\ est' = [called |-> TRUE, mag |-> mag, d1 |-> d1, d2 |-> d2,
                    l1 |-> estimate_intensity(PyNum(mag), d1),
                    l2 |-> estimate_intensity(PyNum(mag), d2)]
    /\ UNCHANGED <<clock, running, seen, seenFile, last_daily_date,
                   alertCalls, dailyCalls, restarts, impact, report, delivery>>

SpecIntensity == Init /\ [][EstimateIntensity]_vars

(***************************************************************************)
(* Properties                                                              *)
(***************************************************************************)

\* C1: within one run of monitor_loop send_to_recipients is called at most
\* once for an event id, whatever the feeds repeat and whatever the
\* deliveries do, and an id that has been alerted is in the seen set.
C1_AlertedAtMostOnce ==
    \A i \in Ids : alertCalls[i] <= 1 /\ (alertCalls[i] >= 1 => i \in seen)

\* both ids have been alerted and at least two more polls have run
C1_Witness ==
    /\ \A i \in Ids : alertCalls[i] = 1
    /\ clock >= StartClock + 4 * CHECK_INTERVAL

\* C2: a run that has been polling from before 08:00 until after 09:00
\* UTC+8 has called send_daily_report exactly once for that date, and no
\* run calls it twice for one date.
C2_DailyReportOncePerDay ==
    /\ dailyCalls <= 1
    /\ (restarts = 0 /\ running /\ hour_of(now_ph(clock)) = 9) => dailyCalls = 1

\* C3: the impact list of an alert and of a daily report holds exactly the
\* cities that are the priority city or within 400 km of the epicenter, each
\* once; the priority city is always in it and the list is never empty.
CitiesOf(list) == { list[k].city : k \in DOMAIN list }

ExpectedCities(lat, lon) ==
    { c \in DOMAIN CITIES :
        \/ c = "Tacloban"
        \/ distance_km(lat, lon, CITIES[c][1], CITIES[c][2]) <= 400000 }

ImpactMembership(lat, lon, list) ==
    /\ CitiesOf(list) = ExpectedCities(lat, lon)
    /\ Len(list) = Cardinality(CitiesOf(list))
    /\ "Tacloban" \in CitiesOf(list)
    /\ list # <<>>

C3_ImpactListMembership ==
    /\ (impact.called /\ ~impact.raised)
           => ImpactMembership(impact.lat, impact.lon, impact.list)
    /\ report.outcome \in {"sent", "sent_log_error"}
           => ImpactMembership(report.lat, report.lon, report.list)

\* an alert whose list holds the priority city from beyond 400 km next to
\* cities inside the radius
C3_Witness ==
    /\ impact.called /\ ~impact.raised
    /\ Len(impact.list) > 1
    /\ \E k \in DOMAIN impact.list :
         impact.list[k].city = "Tacloban" /\ impact.list[k].dist > 400000

\* C4: estimate_intensity returns the label of the two tables: offset +1.5
\* below 30 km, 0 from 30 km, -1.5 from 100 km, -2.5 from 300 km; then the
\* first threshold from >= 7 down to < 2 that the adjusted level meets.
TableOffset(d) ==
    CASE d < 30000 -> 15
      [] 30000 <= d /\ d < 100000 -> 0
      [] 100000 <= d /\ d < 300000 -> -15
      [] d >= 300000 -> -25

TableLabel(lv) ==
    CASE lv >= 70 -> Labels[7]
      [] 60 <= lv /\ lv < 70 -> Labels[6]
      [] 50 <= lv /\ lv < 60 -> Labels[5]
      [] 40 <= lv /\ lv < 50 -> Labels[4]
      [] 30 <= lv /\ lv < 40 -> Labels[3]
      [] 20 <= lv /\ lv < 30 -> Labels[2]
      [] lv < 20 -> Labels[1]

C4_IntensityMatchesTables ==
    est.called =>
        /\ est.l1 = TableLabel(est.mag + TableOffset(est.d1))
        /\ est.l2 = TableLabel(est.mag + TableOffset(est.d2))
        /\ \E k \in DOMAIN Labels : est.l1 = Labels[k]

\* magnitude 7.0 at exactly 30 km (offset 0, level exactly 7) and at
\* exactly 300 km (offset -2.5, level 4.5)
C4_Witness ==
    /\ est.called /\ est.mag = 70 /\ est.d1 = 30000 /\ est.d2 = 300000
    /\ est.l1 = "VII (Severe)" /\ est.l2 = "IV (Moderate)"

\* C5: send_to_recipients makes a request for every recipient, in order,
\* whatever fails, and returns without raising.
C5_EveryRecipientAttempted ==
    delivery.called => delivery.attempted = RECIPIENTS /\ ~delivery.raised

\* the first recipient's request raised and the second got the message
C5_Witness ==
    /\ delivery.called
    /\ RECIPIENTS[1] \notin delivery.delivered
    /\ RECIPIENTS[2] \in delivery.delivered

\* C6: no failure of a poll ends monitor_loop.
C6_LoopNeverEnds == running

\* C7: the impact list is ascending by distance, entries at equal distance
\* keep the city table's order, and so the first entry has the least
\* distance of the list.
CityIndex(c) == CHOOSE j \in DOMAIN CityNames : CityNames[j] = c

Ranked(list) ==
    /\ \A k \in 1..(Len(list) - 1) :
         \/ list[k].dist < list[k + 1].dist
         \/ /\ list[k].dist = list[k + 1].dist
            /\ CityIndex(list[k].city) < CityIndex(list[k + 1].city)
    /\ \A k \in DOMAIN list : list[1].dist <= list[k].dist

C7_ImpactListOrdered ==
    /\ (impact.called /\ ~impact.raised) => Ranked(impact.list)
    /\ report.outcome \in {"sent", "sent_log_error"} => Ranked(report.list)

\* a daily report with two cities at the same distance
C7_Witness ==
    /\ report.outcome = "sent"
    /\ \E k \in 1..(Len(report.list) - 1) :
         report.list[k].dist = report.list[k + 1].dist

\* C8: for a fixed magnitude the label does not rise with the distance.
LabelRank(l) == CHOOSE k \in DOMAIN Labels : Labels[k] = l

C8_IntensityMonotone ==
    est.called => LabelRank(est.l2) <= LabelRank(est.l1)

\* a farther point with a strictly lower label
C8_Witness ==
    /\ est.called /\ est.d1 < est.d2
    /\ LabelRank(est.l2) < LabelRank(est.l1)

\* C9 as stated: no step removes an id from the stored set.
C9_StoreNeverShrinks == [][seenFile.ids \subseteq seenFile'.ids]_vars

\* C9 as the code has it: within one run of monitor_loop (no restart in
\* between) no step removes an id from the loop's seen set.
C9_SeenGrowsWithinRun == [][restarts' = restarts => seen \subseteq seen']_vars

\* the run holds both ids in memory while the file holds none
C9_Witness == seen = Ids /\ seenFile.ids = {} /\ restarts = 0

\* C10: an event whose magnitude is absent (no key, or null) is handled as
\* magnitude 0: the daily report, which receives the feed's first event
\* unfiltered, never works on a missing magnitude and so completes.
C10_AbsentMagnitudeIsZero == ~report.mag.none

====
